---- MODULE Spec2Model ----
(***************************************************************************)
(* A model of the todo list application: StorageService (js/storage.js),   *)
(* TodoManager (js/todoManager.js), UIRenderer (js/uiRenderer.js) and the  *)
(* controller (js/app.js).                                                 *)
(*                                                                         *)
(* A JavaScript string is a sequence of one-character strings, so that     *)
(* String.prototype.trim is computed and not assumed.  The value kept in   *)
(* localStorage is the JSON text: an array document is a sequence of       *)
(* objects, an object a sequence of <<key, value>> members, so that        *)
(* JSON.stringify and JSON.parse are conversions between two different     *)
(* shapes.  A todo in memory is a record (a function from its keys).       *)
(***************************************************************************)
EXTENDS Integers, Sequences, FiniteSets, TLC

VARIABLES
    todos,      \* todoManager.js: let todos = []  (the in-memory collection)
    storage,    \* the value localStorage holds under STORAGE_KEY
    now,        \* the value Date.now() returns
    nextId,     \* how many ids generateId() has produced in this session
    last,       \* the outcome of the most recent call, as its caller sees it
    inited,     \* history: init() has been called
    failures,   \* history: how many localStorage.setItem calls have thrown
    gone,       \* history: ids deleteTodo removed and no init() has brought back
    unsaved,    \* history: the ids of gone whose removal no write has persisted
    rendered,   \* the children of #todo-list, in document order
    inputValue, \* the value of #new-todo-input
    inputError, \* #new-todo-input carries the class input-error
    errorMsg,   \* the #storage-error elements in the page (a set of messages)
    timers,     \* the pending 4 s timers, each named by the message it removes
    tabTodos    \* let todos of the module instance of a second tab

storeVars == <<todos, storage, now, nextId, inited, failures, gone, unsaved>>
uiVars    == <<rendered, inputValue, inputError, errorMsg, timers>>
tabVars   == <<tabTodos>>
vars      == <<storeVars, last, uiVars, tabVars>>

----------------------------------------------------------------------------
(* Bounds of the model *)

MaxAdds  == 2   \* ids generated (records created) in one session
MaxClock == 1   \* Date.now() ranges over 0..MaxClock
MaxFailures == 1   \* localStorage.setItem calls that throw in one session
MaxStorageErrors == 2   \* the same, in one session of the page (SpecApp)

----------------------------------------------------------------------------
(* Values *)

STORAGE_KEY == "todos"

\* Texts a caller passes to addTodo (the value of the input field).
RawTexts ==
    { <<>>, <<" ", " ">>, <<" ", "a", " ">>, <<"a">> }

\* crypto.randomUUID() / the Date.now()+Math.random() fallback: the n-th id of
\* the session.  Random ids are modelled as never drawn twice and never equal
\* to an id already in storage.
IdStream == <<"g1", "g2", "g3", "g4", "g5">>

\* Ids found in storage at the start (written by an earlier session or by
\* another writer), and an id no record ever has.
StoredIds == {"s1", "s2"}
UnknownId == "nonexistent-id"

Ids == {IdStream[i] : i \in 1..Len(IdStream)} \cup StoredIds \cup {UnknownId}

Todo(id, text, completed, createdAt) ==
    [id |-> id, text |-> text, completed |-> completed, createdAt |-> createdAt]

Range(s) == {s[i] : i \in 1..Len(s)}

IdsOf(ts) == {ts[i].id : i \in 1..Len(ts)}

----------------------------------------------------------------------------
(* String.prototype.trim *)

IsSpace(c) == c = " "

RECURSIVE TrimStart(_)
TrimStart(s) ==
    IF s # <<>> /\ IsSpace(Head(s)) THEN TrimStart(Tail(s)) ELSE s

RECURSIVE TrimEnd(_)
TrimEnd(s) ==
    IF s # <<>> /\ IsSpace(s[Len(s)]) THEN TrimEnd(SubSeq(s, 1, Len(s) - 1)) ELSE s

Trim(s) == TrimEnd(TrimStart(s))

----------------------------------------------------------------------------
(* JSON.stringify / JSON.parse on the values the application stores *)

\* Own enumerable keys, in the order JSON.stringify writes them.
KeyOrder == <<"id", "text", "completed", "createdAt", "note">>

RECURSIVE MembersFrom(_, _)
MembersFrom(rec, i) ==
    IF i > Len(KeyOrder) THEN <<>>
    ELSE IF KeyOrder[i] \in DOMAIN rec
         THEN << <<KeyOrder[i], rec[KeyOrder[i]]>> >> \o MembersFrom(rec, i + 1)
         ELSE MembersFrom(rec, i + 1)

JSON_stringify(ts) ==
    [kind |-> "json",
     doc  |-> [t |-> "array",
               items |-> [i \in 1..Len(ts) |-> MembersFrom(ts[i], 1)]]]

ObjectOf(members) ==
    [k \in {members[j][1] : j \in 1..Len(members)} |->
        (CHOOSE m \in Range(members) : m[1] = k)[2]]

\* JSON.parse(raw): throws a SyntaxError on text that is not JSON.
JSON_parse(raw) ==
    IF raw.kind # "json" THEN [threw |-> TRUE, isArray |-> FALSE, value |-> <<>>]
    ELSE IF raw.doc.t = "array"
         THEN [threw |-> FALSE, isArray |-> TRUE,
               value |-> [i \in 1..Len(raw.doc.items) |-> ObjectOf(raw.doc.items[i])]]
         ELSE [threw |-> FALSE, isArray |-> FALSE, value |-> <<>>]

\* localStorage.getItem returns null when the key is absent.
NoItem     == [kind |-> "absent"]
NotJson    == [kind |-> "text"]                        \* e.g. "not json"
JsonObject == [kind |-> "json", doc |-> [t |-> "object"]]   \* e.g. {"a":1}

\* Collections an earlier session, or another writer, may have left in storage.
StoredCollections ==
    { << Todo("s2", <<"b">>, TRUE, 1) >>,
      << [id |-> "s1", text |-> <<" ">>, completed |-> TRUE, createdAt |-> 1, note |-> 1],
         Todo("s1", <<"a">>, FALSE, 0) >> }

InitialStorage ==
    {NoItem, NotJson, JsonObject} \cup {JSON_stringify(c) : c \in StoredCollections}

----------------------------------------------------------------------------
(* js/storage.js *)

load(st) ==
    IF st.kind = "absent" THEN [value |-> <<>>, warned |-> FALSE]
    ELSE LET parsed == JSON_parse(st) IN
         IF parsed.threw THEN [value |-> <<>>, warned |-> TRUE]
         ELSE IF parsed.isArray THEN [value |-> parsed.value, warned |-> FALSE]
         ELSE [value |-> <<>>, warned |-> FALSE]

\* A variant of save that writes only when the item holds no JSON yet.
save_keepsStoredJson(ts, st, writeOk) ==
    IF ~writeOk THEN [storage |-> st, threw |-> TRUE]
    ELSE IF st.kind = "json" THEN [storage |-> st, threw |-> FALSE]
    ELSE [storage |-> JSON_stringify(ts), threw |-> FALSE]

\* localStorage.setItem(STORAGE_KEY, JSON.stringify(todos)); writeOk is whether
\* setItem succeeds (it throws QuotaExceededError when it does not).
save(ts, st, writeOk) ==
    IF writeOk THEN [storage |-> JSON_stringify(ts), threw |-> FALSE]
    ELSE [storage |-> st, threw |-> TRUE]

----------------------------------------------------------------------------
(* js/todoManager.js *)

generateId(n) == IdStream[n]

\* Array.prototype.sort with (a, b) => b.createdAt - a.createdAt: a stable
\* sort (ECMAScript 2019), here by insertion.  The arrays hold references to
\* the objects of ts, so the sort is on the indexes of ts: an index names the
\* object at that place of the collection.
\* A variant of the sort's insertion that puts a record before the records of
\* equal createdAt already placed (a sort that is not stable).
RECURSIVE InsertByCreatedAtDesc_unstable(_, _, _)
InsertByCreatedAtDesc_unstable(ts, i, sorted) ==
    IF sorted = <<>> THEN <<i>>
    ELSE IF ts[i].createdAt - ts[Head(sorted)].createdAt < 0
         THEN <<Head(sorted)>> \o InsertByCreatedAtDesc_unstable(ts, i, Tail(sorted))
         ELSE <<i>> \o sorted

RECURSIVE InsertByCreatedAtDesc(_, _, _)
InsertByCreatedAtDesc(ts, i, sorted) ==
    IF sorted = <<>> THEN <<i>>
    ELSE IF ts[i].createdAt - ts[Head(sorted)].createdAt <= 0
         THEN <<Head(sorted)>> \o InsertByCreatedAtDesc(ts, i, Tail(sorted))
         ELSE <<i>> \o sorted

RECURSIVE SortByCreatedAtDesc(_, _)
SortByCreatedAtDesc(ts, idx) ==
    IF idx = <<>> THEN <<>>
    ELSE InsertByCreatedAtDesc(ts, idx[Len(idx)],
                               SortByCreatedAtDesc(ts, SubSeq(idx, 1, Len(idx) - 1)))

\* A variant of getSortedRefs that returns the incomplete group alone.
getSortedRefs_incompleteOnly(ts) ==
    LET all        == [i \in 1..Len(ts) |-> i]
        incomplete == SelectSeq(all, LAMBDA i : ~ts[i].completed)
    IN  SortByCreatedAtDesc(ts, incomplete)

\* A variant of getSortedRefs that filters the two groups and does not sort them.
getSortedRefs_unsorted(ts) ==
    LET all        == [i \in 1..Len(ts) |-> i]
        incomplete == SelectSeq(all, LAMBDA i : ~ts[i].completed)
        complete   == SelectSeq(all, LAMBDA i : ts[i].completed)
    IN  incomplete \o complete

\* A variant of getSortedRefs that concatenates the two groups the other way.
getSortedRefs_completeFirst(ts) ==
    LET all        == [i \in 1..Len(ts) |-> i]
        incomplete == SelectSeq(all, LAMBDA i : ~ts[i].completed)
        complete   == SelectSeq(all, LAMBDA i : ts[i].completed)
    IN  SortByCreatedAtDesc(ts, complete) \o SortByCreatedAtDesc(ts, incomplete)

\* The objects getSortedTodos returns, each named by its index in ts.
getSortedRefs(ts) ==
    LET all        == [i \in 1..Len(ts) |-> i]
        incomplete == SelectSeq(all, LAMBDA i : ~ts[i].completed)
        complete   == SelectSeq(all, LAMBDA i : ts[i].completed)
    IN  SortByCreatedAtDesc(ts, incomplete) \o SortByCreatedAtDesc(ts, complete)

getSortedTodos(ts) ==
    LET refs == getSortedRefs(ts) IN [k \in 1..Len(refs) |-> ts[refs[k]]]

\* What a call leaves behind (todos, storage) and what its caller sees of it:
\* threw, the error raised ("none": the call returned ret); created: a record
\* was constructed; saved: save() was called; wfail: setItem threw.
Outcome(ts, st, threw, created, saved, wfail, ret) ==
    [todos |-> ts, storage |-> st, threw |-> threw, created |-> created,
     saved |-> saved, wfail |-> wfail, ret |-> ret]

\* save(todos); return getSortedTodos();  with todos already assigned.
SaveAndReturn(ts, st, created, writeOk) ==
    LET s == save(ts, st, writeOk) IN
    IF s.threw
    THEN Outcome(ts, s.storage, "StorageError", created, TRUE, TRUE, <<>>)
    ELSE Outcome(ts, s.storage, "none", created, TRUE, FALSE, getSortedTodos(ts))

\* A variant of addTodo that puts the new record at the end of the array.
addTodo_appends(ts, st, text, id, t, writeOk) ==
    LET trimmed == Trim(text) IN
    IF trimmed = <<>>
    THEN Outcome(ts, st, "ValidationError", FALSE, FALSE, FALSE, <<>>)
    ELSE LET newTodo == Todo(id, trimmed, FALSE, t)
         IN  SaveAndReturn(ts \o <<newTodo>>, st, TRUE, writeOk)

\* A variant of addTodo that writes the new record alone to storage.
addTodo_savesOnlyNew(ts, st, text, id, t, writeOk) ==
    LET trimmed == Trim(text) IN
    IF trimmed = <<>>
    THEN Outcome(ts, st, "ValidationError", FALSE, FALSE, FALSE, <<>>)
    ELSE LET newTodo == Todo(id, trimmed, FALSE, t)
             o == SaveAndReturn(<<newTodo>>, st, TRUE, writeOk)
         IN  [o EXCEPT !.todos = <<newTodo>> \o ts,
                       !.ret = IF o.threw = "none"
                               THEN getSortedTodos(<<newTodo>> \o ts) ELSE <<>>]

\* A variant of addTodo that writes, after the collection, the stored records
\* the collection does not hold.
addTodo_keepsStoredRecords(ts, st, text, id, t, writeOk) ==
    LET trimmed == Trim(text) IN
    IF trimmed = <<>>
    THEN Outcome(ts, st, "ValidationError", FALSE, FALSE, FALSE, <<>>)
    ELSE LET newTodo == Todo(id, trimmed, FALSE, t)
             to == <<newTodo>> \o ts
             o  == SaveAndReturn(to \o SelectSeq(load(st).value,
                                                 LAMBDA r : r.id \notin IdsOf(to)),
                                 st, TRUE, writeOk)
         IN  [o EXCEPT !.todos = to,
                       !.ret = IF o.threw = "none" THEN getSortedTodos(to) ELSE <<>>]


addTodo_rollback(ts, st, text, id, t, writeOk) ==
    LET trimmed == Trim(text) IN
    IF trimmed = <<>>
    THEN Outcome(ts, st, "ValidationError", FALSE, FALSE, FALSE, <<>>)
    ELSE LET newTodo == Todo(id, trimmed, FALSE, t)
             o == SaveAndReturn(<<newTodo>> \o ts, st, TRUE, writeOk)
         IN  IF o.wfail THEN [o EXCEPT !.todos = ts] ELSE o

\* A variant of addTodo that tests the text before trimming it.
addTodo_validatesRaw(ts, st, text, id, t, writeOk) ==
    IF text = <<>>
    THEN Outcome(ts, st, "ValidationError", FALSE, FALSE, FALSE, <<>>)
    ELSE LET newTodo == Todo(id, Trim(text), FALSE, t)
         IN  SaveAndReturn(<<newTodo>> \o ts, st, TRUE, writeOk)

\* A variant of addTodo that stores the text as typed.
addTodo_storesRaw(ts, st, text, id, t, writeOk) ==
    IF Trim(text) = <<>>
    THEN Outcome(ts, st, "ValidationError", FALSE, FALSE, FALSE, <<>>)
    ELSE LET newTodo == Todo(id, text, FALSE, t)
         IN  SaveAndReturn(<<newTodo>> \o ts, st, TRUE, writeOk)

addTodo(ts, st, text, id, t, writeOk) ==
    LET trimmed == Trim(text) IN
    IF trimmed = <<>>
    THEN Outcome(ts, st, "ValidationError", FALSE, FALSE, FALSE, <<>>)
    ELSE LET newTodo == Todo(id, trimmed, FALSE, t)
         IN  SaveAndReturn(<<newTodo>> \o ts, st, TRUE, writeOk)

\* A variant of deleteTodo that saves before it filters.
deleteTodo_savesFirst(ts, st, id, writeOk) ==
    LET o == SaveAndReturn(ts, st, FALSE, writeOk)
        kept == SelectSeq(ts, LAMBDA t : t.id # id)
    IN  [o EXCEPT !.todos = kept,
                  !.ret = IF o.threw = "none" THEN getSortedTodos(kept) ELSE <<>>]

deleteTodo(ts, st, id, writeOk) ==
    SaveAndReturn(SelectSeq(ts, LAMBDA t : t.id # id), st, FALSE, writeOk)

\* A variant of toggleTodo that sets completed instead of flipping it.
toggleTodo_setsCompleted(ts, st, id, writeOk) ==
    SaveAndReturn([i \in 1..Len(ts) |->
                      IF ts[i].id = id THEN [ts[i] EXCEPT !.completed = TRUE]
                      ELSE ts[i]],
                  st, FALSE, writeOk)

\* A variant of toggleTodo that moves the toggled records to the front.
toggleTodo_movesToFront(ts, st, id, writeOk) ==
    LET flipped == [i \in 1..Len(ts) |->
                       IF ts[i].id = id
                       THEN [ts[i] EXCEPT !.completed = ~ts[i].completed]
                       ELSE ts[i]]
    IN  SaveAndReturn(SelectSeq(flipped, LAMBDA t : t.id = id)
                          \o SelectSeq(flipped, LAMBDA t : t.id # id),
                      st, FALSE, writeOk)

\* A variant of toggleTodo that does not call save().
toggleTodo_noSave(ts, st, id, writeOk) ==
    LET flipped == [i \in 1..Len(ts) |->
                       IF ts[i].id = id
                       THEN [ts[i] EXCEPT !.completed = ~ts[i].completed]
                       ELSE ts[i]]
    IN  Outcome(flipped, st, "none", FALSE, FALSE, FALSE, getSortedTodos(flipped))

toggleTodo(ts, st, id, writeOk) ==
    SaveAndReturn([i \in 1..Len(ts) |->
                      IF ts[i].id = id
                      THEN [ts[i] EXCEPT !.completed = ~ts[i].completed]
                      ELSE ts[i]],
                  st, FALSE, writeOk)

----------------------------------------------------------------------------
(* unnamed/part_000: TodoStore and TodoRenderer of the single-file app.js *)

\* TodoStore._load: this._todos = raw ? JSON.parse(raw) : [] in a try/catch.
\* value is what _todos holds afterwards: the parsed value as it is, array or
\* not (isArray: Array.isArray of it).
TodoStore_load(st) ==
    IF st.kind = "absent" THEN [value |-> <<>>, isArray |-> TRUE, warned |-> FALSE]
    ELSE LET parsed == JSON_parse(st) IN
         IF parsed.threw THEN [value |-> <<>>, isArray |-> TRUE, warned |-> TRUE]
         ELSE IF parsed.isArray
              THEN [value |-> parsed.value, isArray |-> TRUE, warned |-> FALSE]
              ELSE [value |-> st.doc, isArray |-> FALSE, warned |-> FALSE]

\* TodoStore._save: the error of setItem is caught and logged (console.warn).
TodoStore_save(ts, st, writeOk) ==
    IF writeOk THEN [storage |-> JSON_stringify(ts), warned |-> FALSE]
    ELSE [storage |-> st, warned |-> TRUE]

\* TodoStore.add: ret is the new todo, or <<>> for null.
TodoStore_add(ts, st, text, id, t, writeOk) ==
    LET trimmed == Trim(text) IN
    IF trimmed = <<>>
    THEN [todos |-> ts, storage |-> st, threw |-> "none", ret |-> <<>>,
          saved |-> FALSE, warned |-> FALSE]
    ELSE LET todo == Todo(id, trimmed, FALSE, t)
             s    == TodoStore_save(<<todo>> \o ts, st, writeOk)
         IN  [todos |-> <<todo>> \o ts, storage |-> s.storage, threw |-> "none",
              ret |-> <<todo>>, saved |-> TRUE, warned |-> s.warned]

\* TodoStore.toggle: the first todo with the id is changed in place; nothing
\* is done, and nothing saved, when there is none.
TodoStore_toggle(ts, st, id, writeOk) ==
    IF id \notin IdsOf(ts)
    THEN [todos |-> ts, storage |-> st, saved |-> FALSE, warned |-> FALSE]
    ELSE LET k  == CHOOSE k \in 1..Len(ts) :
                       ts[k].id = id /\ \A j \in 1..(k - 1) : ts[j].id # id
             to == [ts EXCEPT ![k].completed = ~ts[k].completed]
             s  == TodoStore_save(to, st, writeOk)
         IN  [todos |-> to, storage |-> s.storage, saved |-> TRUE,
              warned |-> s.warned]

\* The comparator of TodoRenderer._sortTodos.
CompareTodos(a, b) ==
    IF a.completed # b.completed
    THEN (IF a.completed THEN 1 ELSE -1)
    ELSE b.createdAt - a.createdAt

RECURSIVE InsertByCompare(_, _, _)
InsertByCompare(ts, i, sorted) ==
    IF sorted = <<>> THEN <<i>>
    ELSE IF CompareTodos(ts[Head(sorted)], ts[i]) <= 0
         THEN <<Head(sorted)>> \o InsertByCompare(ts, i, Tail(sorted))
         ELSE <<i>> \o sorted

RECURSIVE SortByCompare(_, _)
SortByCompare(ts, idx) ==
    IF idx = <<>> THEN <<>>
    ELSE InsertByCompare(ts, idx[Len(idx)],
                         SortByCompare(ts, SubSeq(idx, 1, Len(idx) - 1)))

\* TodoRenderer._sortTodos: [...todos].sort(comparator), a stable sort.
TodoRenderer_sortTodos(ts) ==
    LET refs == SortByCompare(ts, [i \in 1..Len(ts) |-> i])
    IN  [k \in 1..Len(refs) |-> ts[refs[k]]]

\* TodoRenderer._createItem: the <li> of one todo; id is its data-id.
TodoRenderer_createItem(todo) ==
    [id |-> todo.id, text |-> todo.text, checked |-> todo.completed,
     struck |-> todo.completed]

\* TodoRenderer.render: one <li class="todo-placeholder">, with no data-id,
\* when the list is empty; the sorted items otherwise.
TodoRenderer_render(ts) ==
    IF Len(ts) = 0
    THEN << [class |-> "todo-placeholder"] >>
    ELSE LET sorted == TodoRenderer_sortTodos(ts)
         IN  [i \in 1..Len(sorted) |-> TodoRenderer_createItem(sorted[i])]

----------------------------------------------------------------------------
(* js/uiRenderer.js *)

\* buildTodoElement: the <li> of one todo.  id is the data-id of its checkbox
\* and of its delete button, checked the state of the checkbox, struck whether
\* the span carries the class completed-text.
buildTodoElement(todo) ==
    [id |-> todo.id, text |-> todo.text, checked |-> todo.completed,
     struck |-> todo.completed]

\* renderTodos: list.innerHTML = '' and one <li> appended per todo, in order.
renderTodos(ts) == [i \in 1..Len(ts) |-> buildTodoElement(ts[i])]

----------------------------------------------------------------------------
(* The state after the modules are loaded and before any call *)

\* op: the function or handler that ran last; threw: the error the store call
\* raised ("none": it returned); saved: save() was called; wfail: setItem
\* threw; hit: the id given matched a record; escaped: the error left the
\* event handler uncaught.
NoCall ==
    [op |-> "none", threw |-> "none", saved |-> FALSE, wfail |-> FALSE,
     hit |-> FALSE, escaped |-> FALSE]

Call(op, o, hit, escaped) ==
    [op |-> op, threw |-> o.threw, saved |-> o.saved, wfail |-> o.wfail,
     hit |-> hit, escaped |-> escaped]

Init ==
    /\ todos = <<>>
    /\ storage \in InitialStorage
    /\ now = 0
    /\ nextId = 1
    /\ last = NoCall
    /\ inited = FALSE
    /\ failures = 0
    /\ gone = {}
    /\ unsaved = {}
    /\ rendered = <<>>
    /\ inputValue = <<>>
    /\ inputError = FALSE
    /\ errorMsg = {}
    /\ timers = {}
    /\ tabTodos = <<>>

\* Whether the next localStorage.setItem succeeds: it may throw, at most
\* MaxFailures times in the session.
WriteOutcomes == IF failures < MaxFailures THEN BOOLEAN ELSE {TRUE}

\* The effect of a store call with outcome o on the store and on the history;
\* hit: the ids the call removed from the collection.
Apply(o, hit) ==
    /\ todos' = o.todos
    /\ storage' = o.storage
    /\ failures' = IF o.wfail THEN failures + 1 ELSE failures
    /\ gone' = gone \cup hit
    /\ unsaved' = IF o.saved /\ ~o.wfail THEN {} ELSE unsaved \cup hit

\* init(): todos = load()
Rehydrate ==
    /\ todos' = load(storage).value
    /\ inited' = TRUE
    /\ gone' = gone \ unsaved
    /\ unsaved' = {}
    /\ UNCHANGED <<storage, now, nextId, failures>>

\* addTodo reads generateId() and Date.now() once it has validated the text;
\* Date.now() never goes back: it reads a time t >= the last one read.
AddStep(o, t) ==
    /\ nextId <= MaxAdds
    /\ t >= now
    /\ Apply(o, {})
    /\ nextId' = IF o.created THEN nextId + 1 ELSE nextId
    /\ now' = IF o.created THEN t ELSE now
    /\ UNCHANGED inited

----------------------------------------------------------------------------
(* Spec: TodoManager called directly (as js/todoManager's unit tests do) *)

InitTodos ==
    /\ Rehydrate
    /\ last' = [NoCall EXCEPT !.op = "init"]
    /\ UNCHANGED uiVars
    /\ UNCHANGED tabVars

AddTodo(text, t, writeOk) ==
    /\ LET o == addTodo(todos, storage, text, generateId(nextId), t, writeOk) IN
       /\ AddStep(o, t)
       /\ last' = Call("add", o, FALSE, FALSE)
    /\ UNCHANGED uiVars
    /\ UNCHANGED tabVars

DeleteTodo(id, writeOk) ==
    /\ LET o == deleteTodo(todos, storage, id, writeOk) IN
       /\ Apply(o, {id} \cap IdsOf(todos))
       /\ last' = Call("delete", o, id \in IdsOf(todos), FALSE)
    /\ UNCHANGED <<now, nextId, inited, uiVars>>
    /\ UNCHANGED tabVars

ToggleTodo(id, writeOk) ==
    /\ LET o == toggleTodo(todos, storage, id, writeOk) IN
       /\ Apply(o, {})
       /\ last' = Call("toggle", o, id \in IdsOf(todos), FALSE)
    /\ UNCHANGED <<now, nextId, inited, uiVars>>
    /\ UNCHANGED tabVars

\* The ids a caller passes: one of a record of the collection, or one of none.
CallerIds == IdsOf(todos) \cup {UnknownId}

Next ==
    \/ InitTodos
    \/ \E text \in RawTexts, t \in 0..MaxClock, writeOk \in WriteOutcomes :
          AddTodo(text, t, writeOk)
    \/ \E id \in CallerIds, writeOk \in WriteOutcomes : DeleteTodo(id, writeOk)
    \/ \E id \in CallerIds, writeOk \in WriteOutcomes : ToggleTodo(id, writeOk)

Spec == Init /\ [][Next]_vars

----------------------------------------------------------------------------
(* SpecCaller: a caller that also writes to the array getSortedTodos returned *)

\* r = getSortedTodos(); r.push({...}): r is the array the spread built, and
\* no other reference to it exists.
CallerPush ==
    /\ last' = [NoCall EXCEPT !.op = "push"]
    /\ UNCHANGED <<storeVars, uiVars>>
    /\ UNCHANGED tabVars

\* r = getSortedTodos(); r[k].completed = !r[k].completed: r[k] is the object
\* the collection holds at getSortedRefs(todos)[k].
CallerSetField(k) ==
    /\ k \in 1..Len(todos)
    /\ LET j == getSortedRefs(todos)[k] IN
       todos' = [todos EXCEPT ![j].completed = ~todos[j].completed]
    /\ last' = [NoCall EXCEPT !.op = "setField"]
    /\ UNCHANGED <<storage, now, nextId, inited, failures, gone, unsaved, uiVars>>
    /\ UNCHANGED tabVars

NextCaller ==
    \/ Next
    \/ CallerPush
    \/ \E k \in 1..Len(todos) : CallerSetField(k)

SpecCaller == Init /\ [][NextCaller]_vars

----------------------------------------------------------------------------
(* SpecTabs: two tabs of one origin, each with its own instance of the
   modules, sharing the storage item *)

\* The effect of a store call of the second tab, with outcome o.
TabApply(o) ==
    /\ tabTodos' = o.todos
    /\ storage' = o.storage
    /\ failures' = IF o.wfail THEN failures + 1 ELSE failures
    /\ UNCHANGED <<todos, inited, gone, unsaved, uiVars>>

\* init() in the second tab.
TabInit ==
    /\ tabTodos' = load(storage).value
    /\ last' = [NoCall EXCEPT !.op = "tabInit"]
    /\ UNCHANGED <<storeVars, uiVars>>

\* addTodo(text) in the second tab; the ids of the two tabs never collide.
TabAdd(text, t, writeOk) ==
    /\ nextId <= MaxAdds
    /\ t >= now
    /\ LET o == addTodo(tabTodos, storage, text, generateId(nextId), t, writeOk) IN
       /\ TabApply(o)
       /\ nextId' = IF o.created THEN nextId + 1 ELSE nextId
       /\ now' = IF o.created THEN t ELSE now
       /\ last' = Call("tabAdd", o, FALSE, FALSE)

TabDelete(id, writeOk) ==
    /\ LET o == deleteTodo(tabTodos, storage, id, writeOk) IN
       /\ TabApply(o)
       /\ last' = Call("tabDelete", o, id \in IdsOf(tabTodos), FALSE)
    /\ UNCHANGED <<now, nextId>>

TabToggle(id, writeOk) ==
    /\ LET o == toggleTodo(tabTodos, storage, id, writeOk) IN
       /\ TabApply(o)
       /\ last' = Call("tabToggle", o, id \in IdsOf(tabTodos), FALSE)
    /\ UNCHANGED <<now, nextId>>

\* The texts typed in the tabs, the item the tabs find at their start, and
\* the clock of the tabs, which stands still while they interleave.
TabTexts == { <<"a">> }
TabStorage == {NoItem}
TabTimes == {now}

NextTabs ==
    \/ InitTodos
    \/ \E text \in TabTexts, t \in TabTimes, writeOk \in WriteOutcomes :
          AddTodo(text, t, writeOk)
    \/ \E id \in IdsOf(todos), writeOk \in WriteOutcomes : DeleteTodo(id, writeOk)
    \/ \E id \in IdsOf(todos), writeOk \in WriteOutcomes : ToggleTodo(id, writeOk)
    \/ TabInit
    \/ \E text \in TabTexts, t \in TabTimes, writeOk \in WriteOutcomes :
          TabAdd(text, t, writeOk)
    \/ \E id \in IdsOf(tabTodos), writeOk \in WriteOutcomes : TabDelete(id, writeOk)
    \/ \E id \in IdsOf(tabTodos), writeOk \in WriteOutcomes : TabToggle(id, writeOk)

InitTabs == Init /\ storage \in TabStorage

SpecTabs == InitTabs /\ [][NextTabs]_vars


----------------------------------------------------------------------------
(* SpecApp: the page, driven by its events (js/app.js) *)

\* A variant of showStorageError that does not remove the message in place.
showStorageError_keepsExisting(k) ==
    /\ errorMsg' = errorMsg \cup {k}
    /\ timers' = timers \cup {k}

\* showStorageError: the element getElementById('storage-error') finds (the
\* first in the container: the oldest) is removed, a new message k is appended
\* and a timer is set to remove k after 4 s.  errorMsg is the set of the
\* messages in the container.
showStorageError(k) ==
    /\ errorMsg' = {m \in errorMsg : \E n \in errorMsg : n < m} \cup {k}
    /\ timers' = timers \cup {k}

\* A page load: the modules are evaluated afresh, then the DOMContentLoaded
\* listener runs init(); renderTodos(getSortedTodos()) and adds the listeners.
DOMContentLoaded ==
    /\ Rehydrate
    /\ rendered' = renderTodos(getSortedTodos(load(storage).value))
    /\ inputValue' = <<>>
    /\ inputError' = FALSE
    /\ errorMsg' = {}
    /\ timers' = {}
    /\ last' = [NoCall EXCEPT !.op = "load"]
    /\ UNCHANGED tabVars

\* A variant of handleAdd that clears the input whatever addTodo does.
HandleAdd_alwaysClears(text, t, writeOk) ==
    /\ inited
    /\ LET o == addTodo(todos, storage, text, generateId(nextId), t, writeOk) IN
       /\ AddStep(o, t)
       /\ last' = Call("handleAdd", o, FALSE, FALSE)
       /\ inputValue' = <<>>
       /\ CASE o.threw = "none" ->
                 /\ rendered' = renderTodos(o.ret)
                 /\ UNCHANGED <<inputError, errorMsg, timers>>
            [] o.threw = "ValidationError" ->
                 /\ inputError' = TRUE
                 /\ UNCHANGED <<rendered, errorMsg, timers>>
            [] OTHER ->
                 /\ showStorageError(failures + 1)
                 /\ UNCHANGED <<rendered, inputError>>
    /\ UNCHANGED tabVars

\* handleAdd, the input holding text (a click on #add-btn, or Enter).
HandleAdd(text, t, writeOk) ==
    /\ inited
    /\ LET o == addTodo(todos, storage, text, generateId(nextId), t, writeOk) IN
       /\ AddStep(o, t)
       /\ last' = Call("handleAdd", o, FALSE, FALSE)
       /\ CASE o.threw = "none" ->
                 /\ rendered' = renderTodos(o.ret)
                 /\ inputValue' = <<>>
                 /\ UNCHANGED <<inputError, errorMsg, timers>>
            [] o.threw = "ValidationError" ->
                 /\ inputError' = TRUE
                 /\ inputValue' = text
                 /\ UNCHANGED <<rendered, errorMsg, timers>>
            [] OTHER ->
                 /\ showStorageError(failures + 1)
                 /\ inputValue' = text
                 /\ UNCHANGED <<rendered, inputError>>
    /\ UNCHANGED tabVars

\* A click on the delete button of the i-th <li>.
ClickDelete(i, writeOk) ==
    /\ inited
    /\ i \in 1..Len(rendered)
    /\ rendered[i].id # ""
    /\ LET id == rendered[i].id
           o  == deleteTodo(todos, storage, id, writeOk)
       IN  /\ Apply(o, {id} \cap IdsOf(todos))
           /\ last' = Call("clickDelete", o, id \in IdsOf(todos), o.threw # "none")
           /\ rendered' = IF o.threw = "none" THEN renderTodos(o.ret) ELSE rendered
    /\ UNCHANGED <<now, nextId, inited, inputValue, inputError, errorMsg, timers>>
    /\ UNCHANGED tabVars

\* A click on the checkbox of the i-th <li>: the browser flips the checkbox,
\* then the listener runs.
ClickToggle(i, writeOk) ==
    /\ inited
    /\ i \in 1..Len(rendered)
    /\ rendered[i].id # ""
    /\ LET id == rendered[i].id
           o  == toggleTodo(todos, storage, id, writeOk)
       IN  /\ Apply(o, {})
           /\ last' = Call("clickToggle", o, id \in IdsOf(todos), o.threw # "none")
           /\ rendered' = IF o.threw = "none" THEN renderTodos(o.ret)
                          ELSE [rendered EXCEPT ![i].checked = ~rendered[i].checked]
    /\ UNCHANGED <<now, nextId, inited, inputValue, inputError, errorMsg, timers>>
    /\ UNCHANGED tabVars

\* A click on an element nested in the delete button of the i-th <li>:
\* e.target is that element, which has neither data-action nor data-id and is
\* no checkbox, so neither branch of the listener is taken.
ClickDeleteChild(i) ==
    /\ inited
    /\ i \in 1..Len(rendered)
    /\ last' = [NoCall EXCEPT !.op = "clickDeleteChild"]
    /\ UNCHANGED <<storeVars, uiVars>>
    /\ UNCHANGED tabVars

\* setTimeout(() => msg.remove(), 4000) of message k expires.
StorageErrorTimeout(k) ==
    /\ k \in timers
    /\ timers' = timers \ {k}
    /\ errorMsg' = errorMsg \ {k}
    /\ UNCHANGED <<storeVars, last, rendered, inputValue, inputError>>
    /\ UNCHANGED tabVars

\* setTimeout(() => input.classList.remove('input-error'), 600) expires.
InputErrorTimeout ==
    /\ inputError
    /\ inputError' = FALSE
    /\ UNCHANGED <<storeVars, last, rendered, inputValue, errorMsg, timers>>
    /\ UNCHANGED tabVars

\* What the storage holds when the page is first opened, and the times
\* Date.now() reads in the page: the session of the page is taken to start
\* from no item or from text that is not JSON, and to read one millisecond.
PageStorage == {NoItem, NotJson}
PageTimes == {now}

\* Whether the next localStorage.setItem of the page succeeds.
PageWriteOutcomes == IF failures < MaxStorageErrors THEN BOOLEAN ELSE {TRUE}

NextApp ==
    \/ DOMContentLoaded
    \/ \E text \in RawTexts, t \in PageTimes, writeOk \in PageWriteOutcomes :
          HandleAdd(text, t, writeOk)
    \/ \E i \in 1..Len(rendered), writeOk \in PageWriteOutcomes : ClickDelete(i, writeOk)
    \/ \E i \in 1..Len(rendered), writeOk \in PageWriteOutcomes : ClickToggle(i, writeOk)
    \/ \E i \in 1..Len(rendered) : ClickDeleteChild(i)
    \/ \E k \in timers : StorageErrorTimeout(k)
    \/ InputErrorTimeout

InitApp == Init /\ storage \in PageStorage

SpecApp == InitApp /\ [][NextApp]_vars

\* The timers set by setTimeout expire: a pending timer's callback is run.
MsgIds == 1..MaxStorageErrors

SpecAppFair ==
    SpecApp /\ \A k \in MsgIds : WF_vars(StorageErrorTimeout(k))

----------------------------------------------------------------------------
(* Properties *)

\* A text that is empty or holds white space only.
IsBlank(text) == \A i \in 1..Len(text) : IsSpace(text[i])

\* s without its i-th element.
RemoveAt(s, i) == SubSeq(s, 1, i - 1) \o SubSeq(s, i + 1, Len(s))

Times == 0..MaxClock

C3_ToggleUnknownIsNoOp ==
    [][\A id \in Ids, w \in BOOLEAN :
          (id \notin IdsOf(todos) /\ ToggleTodo(id, w))
          => /\ todos' = todos
             /\ last'.threw = "none"
             /\ ~last'.saved]_vars

\* C4: deleteTodo(id) with an id of no record leaves the collection and the
\* persisted value as they were and raises no error, also when a storage
\* write would fail.
C4_DeleteUnknownIsNoOp ==
    [][\A id \in Ids, w \in BOOLEAN :
          (id \notin IdsOf(todos) /\ DeleteTodo(id, w))
          => /\ todos' = todos
             /\ storage' = storage
             /\ last'.threw = "none"]_vars

\* C5: for every blank text, addTodo fails with a ValidationError, leaves the
\* collection as it was and makes no persistence call.
C5_BlankTextRejected ==
    [][\A text \in RawTexts, t \in Times, w \in BOOLEAN :
          (IsBlank(text) /\ AddTodo(text, t, w))
          => /\ last'.threw = "ValidationError"
             /\ todos' = todos
             /\ ~last'.saved
             /\ storage' = storage]_vars

C5_Witness ==
    /\ last.op = "add"
    /\ last.threw = "ValidationError"
    /\ Len(todos) >= 1

\* C6: for every text that is not blank, an addTodo that returns makes the
\* collection one record longer; the new record has the trimmed text and
\* completed = false, and every earlier record is unchanged.
C6_AddInsertsOneRecord ==
    [][\A text \in RawTexts, t \in Times, w \in BOOLEAN :
          (~IsBlank(text) /\ AddTodo(text, t, w) /\ last'.threw = "none")
          => /\ Len(todos') = Len(todos) + 1
             /\ \E i \in 1..Len(todos') :
                   /\ todos'[i].text = Trim(text)
                   /\ todos'[i].completed = FALSE
                   /\ RemoveAt(todos', i) = todos]_vars

C6_Witness ==
    /\ last.op = "add"
    /\ last.threw = "none"
    /\ Len(todos) >= 2
    /\ todos[1].text = <<"a">>

\* C2: when the storage write fails while the user adds a text that is not
\* blank, the list rendered once the event is handled holds the new todo, and
\* the storage warning is in the page.
C2_FailedAddStillRendered ==
    [][\A text \in RawTexts, t \in Times, w \in BOOLEAN :
          (~IsBlank(text) /\ HandleAdd(text, t, w) /\ last'.wfail)
          => /\ \E i \in 1..Len(rendered') :
                   /\ rendered'[i].id = generateId(nextId)
                   /\ rendered'[i].text = Trim(text)
             /\ errorMsg' # {}
             /\ ~last'.escaped]_vars

\* C7: no write to the array getSortedTodos returned (an element added, a
\* field of one of its records changed) changes the collection of the store.
C7_ReturnedArrayIsDetached ==
    [][(CallerPush \/ \E k \in 1..Len(todos) : CallerSetField(k))
          => todos' = todos]_vars

\* C8: after init() and any calls of addTodo, toggleTodo, deleteTodo and
\* init() in which no storage write failed, load() decodes the persisted value
\* to the collection in memory, records and order, so that a further init()
\* yields the same collection and the same sorted view.
C8_PersistedEqualsMemory ==
    (inited /\ failures = 0)
    => LET reloaded == load(storage).value IN
       /\ reloaded = todos
       /\ getSortedTodos(reloaded) = getSortedTodos(todos)

C8_Witness ==
    /\ inited
    /\ failures = 0
    /\ last.op = "toggle"
    /\ last.hit
    /\ Len(todos) >= 2
    /\ \E i \in 1..Len(todos) : "note" \in DOMAIN todos[i]

IncompleteFirst(v) ==
    \A i, j \in 1..Len(v) : (v[i].completed /\ ~v[j].completed) => j < i

C10_SortedIncompleteFirst ==
    /\ IncompleteFirst(getSortedTodos(todos))
    /\ IncompleteFirst(TodoRenderer_sortTodos(todos))

C10_Witness ==
    /\ Len(todos) >= 3
    /\ \E i, j \in 1..Len(todos) : i < j /\ todos[i].completed /\ ~todos[j].completed
    /\ getSortedTodos(todos) # todos

\* createdAt does not increase along a run of records with equal completed.
RunsNewestFirst(v) ==
    \A i \in 1..(Len(v) - 1) :
        v[i].completed = v[i + 1].completed => v[i].createdAt >= v[i + 1].createdAt

\* C11: in the sorted view (getSortedTodos, and TodoRenderer._sortTodos of the
\* same collection), within each maximal run of records with equal completed,
\* createdAt is non-increasing from first to last.
C11_RunsNewestFirst ==
    /\ RunsNewestFirst(getSortedTodos(todos))
    /\ RunsNewestFirst(TodoRenderer_sortTodos(todos))

\* The collection holds, in this order, two records of one group of which the
\* second is the newer: the sort has to move it.
C11_Witness ==
    \E i, j \in 1..Len(todos) :
        /\ i < j
        /\ todos[i].completed = todos[j].completed
        /\ todos[i].createdAt < todos[j].createdAt

\* C12: immediately after every successful add the new record is the first
\* element of the sorted view, for every prior collection.
C12_NewRecordFirst ==
    [][\A text \in RawTexts, t \in Times, w \in BOOLEAN :
          (AddTodo(text, t, w) /\ last'.threw = "none")
          => getSortedTodos(todos')[1]
                = Todo(generateId(nextId), Trim(text), FALSE, t)]_vars

\* The place of the record with the given id in the view v (0: not in it).
PlaceOf(v, id) ==
    IF \E k \in 1..Len(v) : v[k].id = id
    THEN CHOOSE k \in 1..Len(v) : v[k].id = id
    ELSE 0

\* In the view v the record new stands after the incomplete records created
\* later than it and before every other record.
AboveAllButNewer(v, new) ==
    LET p == PlaceOf(v, new.id) IN
    /\ p > 0
    /\ v[p] = new
    /\ \A k \in 1..Len(v) :
          k < p <=> (~v[k].completed /\ v[k].createdAt > new.createdAt)

\* C12 (amended): immediately after every successful add, the new record
\* stands in the sorted view (getSortedTodos, and TodoRenderer._sortTodos)
\* before every record but the incomplete records whose createdAt is greater
\* than its own; so it is the first element when the prior collection has no
\* such record, also when records have a createdAt equal to its own.
C12_NewRecordAboveAllButNewer ==
    [][\A text \in RawTexts, t \in Times, w \in BOOLEAN :
          (AddTodo(text, t, w) /\ last'.threw = "none")
          => LET new == Todo(generateId(nextId), Trim(text), FALSE, t) IN
             /\ AboveAllButNewer(getSortedTodos(todos'), new)
             /\ AboveAllButNewer(TodoRenderer_sortTodos(todos'), new)
             /\ (\A r \in Range(todos) : ~r.completed => r.createdAt <= t)
                   => /\ getSortedTodos(todos')[1] = new
                      /\ TodoRenderer_sortTodos(todos')[1] = new]_vars

\* A successful add into a hydrated collection that holds an incomplete
\* record created in the same millisecond.
C12_Witness ==
    /\ last.op = "add"
    /\ last.threw = "none"
    /\ inited
    /\ Len(todos) >= 2
    /\ todos[1].id = generateId(nextId - 1)
    /\ \E i \in 2..Len(todos) :
          /\ ~todos[i].completed
          /\ todos[i].createdAt = todos[1].createdAt
          /\ todos[i].id \in StoredIds

\* C13: no two records of the collection have the same id.
C13_UniqueIds ==
    \A i, j \in 1..Len(todos) : i # j => todos[i].id # todos[j].id

\* C14: every record of the collection has a text that is not empty after
\* trimming.
C14_NoBlankText ==
    \A i \in 1..Len(todos) : ~IsBlank(todos[i].text)

\* C15: a failure of the storage write is raised to the caller by save, by
\* addTodo and by TodoStore.add; none of them swallows it.
C15_WriteFailurePropagates ==
    [][\A text \in RawTexts, t \in Times, w \in BOOLEAN :
          (~IsBlank(text) /\ AddTodo(text, t, w) /\ ~w)
          => /\ save(todos', storage, FALSE).threw
             /\ last'.threw = "StorageError"
             /\ TodoStore_add(todos, storage, text, generateId(nextId), t, FALSE).threw
                   = "StorageError"]_vars

\* Array.isArray(JSON.parse(item)) of a stored item.
HoldsArray(st) == st.kind = "json" /\ st.doc.t = "array"

\* C16: load() and TodoStore._load return a collection for every state of the
\* storage medium, and the empty collection unless the item is a JSON array.
C16_LoadReturnsCollection ==
    [][InitTodos
          => LET r == load(storage)
                 s == TodoStore_load(storage)
             IN  /\ todos' = r.value
                 /\ s.isArray
                 /\ ~HoldsArray(storage) => (r.value = <<>> /\ s.value = <<>>)]_vars

\* C17: load() logs a warning exactly when the item is present and is not a
\* JSON array: text that is not JSON, or JSON of another kind.
C17_WarnsInBothCorruptCases ==
    [][InitTodos
          => (load(storage).warned
                 <=> (storage.kind # "absent" /\ ~HoldsArray(storage)))]_vars

\* C18: save(c) followed by load() returns c, whatever the item held before,
\* for the collection, its sorted view, the empty collection and the stored
\* ones; a later save(todos) replaces what save(c) wrote.
C18_SaveLoadRoundTrip ==
    \A c \in {todos, getSortedTodos(todos), <<>>} \cup StoredCollections :
        LET first == save(c, storage, TRUE) IN
        /\ ~first.threw
        /\ load(first.storage) = [value |-> c, warned |-> FALSE]
        /\ load(save(todos, first.storage, TRUE).storage).value = todos

\* The item holds an array other than the collection of two or more records
\* (a write failed): the next save has an earlier value to overwrite.
C18_Witness ==
    /\ HoldsArray(storage)
    /\ Len(todos) >= 2
    /\ load(storage).value # todos
    /\ load(storage).value # <<>>

\* C19: when the collection is empty the list rendered holds one placeholder
\* node with no item id, by renderTodos and by TodoRenderer.render; with one
\* todo or more it holds no placeholder.
C19_EmptyListShowsPlaceholder ==
    (last.op \in {"load", "clickDelete"} /\ ~last.escaped)
    => /\ \A i \in 1..Len(TodoRenderer_render(todos)) :
             "id" \in DOMAIN TodoRenderer_render(todos)[i] <=> todos # <<>>
       /\ Len(TodoRenderer_render(todos)) >= 1
       /\ \A i \in 1..Len(rendered) : "id" \in DOMAIN rendered[i] <=> todos # <<>>
       /\ Len(rendered) >= 1

\* C20: every object of the array a store call wrote to storage has the four
\* fields id, text, completed, createdAt and no others.
C20_WritesFourFields ==
    (last.saved /\ ~last.wfail)
    => /\ HoldsArray(storage)
       /\ \A i \in 1..Len(storage.doc.items) :
             {storage.doc.items[i][k][1] : k \in 1..Len(storage.doc.items[i])}
                = {"id", "text", "completed", "createdAt"}

\* C21: toggleTodo(id) twice, with an id of the collection, leaves the
\* collection, the sorted view and the persisted value as they were before
\* the first of the two calls.
C21_ToggleTwiceRestoresAll ==
    [][\A id \in IdsOf(todos) :
          (last'.op = "toggle" /\ ~last'.wfail /\ ToggleTodo(id, TRUE))
          => LET o2 == toggleTodo(todos', storage', id, TRUE) IN
             /\ o2.todos = todos
             /\ getSortedTodos(o2.todos) = getSortedTodos(todos)
             /\ o2.storage = storage]_vars

\* C21 (amended): toggleTodo(id) twice, with an id of the collection, leaves
\* the collection and the sorted view as they were before the first call,
\* whether the writes succeed or not; so does TodoStore.toggle.  When the
\* second write succeeds the persisted value is the serialized collection,
\* which is the value persisted before the first call only if that value was
\* the serialized collection already.
C21_ToggleTwiceRestoresCollection ==
    [][\A id \in IdsOf(todos), w1 \in {~last'.wfail} :
          (last'.op = "toggle" /\ ToggleTodo(id, w1))
          => \A w2 \in BOOLEAN :
               \A o2 \in {toggleTodo(todos', storage', id, w2)},
                  s1 \in {TodoStore_toggle(todos, storage, id, w1)} :
               \A s2 \in {TodoStore_toggle(s1.todos, s1.storage, id, w2)} :
               /\ o2.todos = todos
               /\ getSortedTodos(o2.todos) = getSortedTodos(todos)
               /\ s2.todos = todos
               /\ w2 => o2.storage = JSON_stringify(todos)
               /\ (w2 /\ storage = JSON_stringify(todos)) => o2.storage = storage
               /\ (~w2 /\ last'.wfail) => o2.storage = storage]_vars

\* A toggle of a record of a collection of two records or more whose
\* persisted value is not the serialized collection.
C21_Witness ==
    /\ last.op = "toggle"
    /\ last.hit
    /\ ~last.wfail
    /\ Len(todos) >= 2
    /\ failures > 0

\* C22: toggleTodo(id) and TodoStore.toggle(id), with an id of the collection,
\* flip completed on the record with that id (toggleTodo: on each of them,
\* TodoStore.toggle: on the first) and change nothing else: the other fields
\* of that record, every other record, the number of records and their order.
C22_ToggleChangesOnlyCompleted ==
    [][\A id \in IdsOf(todos), w \in {~last'.wfail} :
          (last'.op = "toggle" /\ ToggleTodo(id, w))
          => LET s == TodoStore_toggle(todos, storage, id, w).todos IN
             /\ Len(todos') = Len(todos)
             /\ \A i \in 1..Len(todos) :
                   todos'[i] = IF todos[i].id = id
                               THEN [todos[i] EXCEPT !.completed = ~todos[i].completed]
                               ELSE todos[i]
             /\ Len(s) = Len(todos)
             /\ \E k \in 1..Len(todos) :
                   /\ todos[k].id = id
                   /\ s = [todos EXCEPT ![k].completed = ~todos[k].completed]]_vars

\* A toggle of a record that carries a field more than the four, in a
\* collection that holds another record.
C22_Witness ==
    /\ last.op = "toggle"
    /\ last.hit
    /\ Len(todos) >= 2
    /\ \E i \in 1..Len(todos) : "note" \in DOMAIN todos[i]

\* C24: after every mutation whose storage write succeeds, the persisted value
\* is the whole in-memory collection, the effects of the earlier mutations
\* whose own writes failed included.
C24_SuccessfulWriteCatchesUp ==
    (last.saved /\ ~last.wfail)
    => /\ storage = JSON_stringify(todos)
       /\ load(storage) = [value |-> todos, warned |-> FALSE]

\* A write has succeeded after a write that failed, and the collection holds
\* a record.
C24_Witness ==
    /\ last.saved
    /\ ~last.wfail
    /\ failures > 0
    /\ todos # <<>>

\* C29: getSortedTodos and TodoRenderer._sortTodos give the same sequence for
\* every collection.
C29_SortsAgree ==
    /\ getSortedTodos(todos) = TodoRenderer_sortTodos(todos)
    /\ getSortedRefs(todos) = SortByCompare(todos, [i \in 1..Len(todos) |-> i])

\* The collection holds two records of one group with equal createdAt and a
\* record of the other group.
C29_Witness ==
    \E i, j, k \in 1..Len(todos) :
        /\ i < j
        /\ todos[i].completed = todos[j].completed
        /\ todos[i].createdAt = todos[j].createdAt
        /\ todos[k].completed # todos[i].completed

\* v names each place of 1..n exactly once.
IsPermutation(v, n) ==
    /\ Len(v) = n
    /\ \A p \in 1..n : Cardinality({k \in 1..Len(v) : v[k] = p}) = 1

C23_ClickErrorsAreCaught ==
    [][(last'.op \in {"clickDelete", "clickToggle"} /\ last'.wfail)
          => /\ ~last'.escaped
             /\ rendered' = renderTodos(getSortedTodos(todos'))]_vars

\* C26: at most one storage-error message is in the page at any time, each
\* message in the page has its own timer pending, and every message shown is
\* removed in the end.
C26_OneMessageRemovedInTheEnd ==
    /\ [](Cardinality(errorMsg) <= 1)
    /\ [](errorMsg \subseteq timers)
    /\ \A k \in MsgIds : (k \in errorMsg) ~> (k \notin errorMsg)

\* A second storage error has replaced the message of the first while the
\* timer of the first is still pending.
C26_Witness ==
    /\ Cardinality(timers) >= 2
    /\ errorMsg # {}
    /\ \E k \in timers : k \notin errorMsg

\* C27: a click on an element nested in the delete button of a todo deletes
\* that todo, as a click on the button does.
C27_ChildClickDeletes ==
    [][\A i \in 1..Len(rendered) :
          (last'.op = "clickDeleteChild" /\ ClickDeleteChild(i)
              /\ rendered[i].id \in IdsOf(todos))
          => rendered[i].id \notin IdsOf(todos')]_vars

\* C28: when the user submits text that is empty or white space, handleAdd
\* changes nothing but the error indication of the input: the list rendered,
\* the value of the input, the collection, the persisted value and the
\* storage-error message are as before, and no write is attempted.
C28_BlankSubmitChangesNothing ==
    [][\A text \in RawTexts :
          (last'.op = "handleAdd" /\ IsBlank(text) /\ HandleAdd(text, now, TRUE))
          => /\ last'.threw = "ValidationError"
             /\ ~last'.saved
             /\ inputError'
             /\ inputValue' = text
             /\ UNCHANGED <<todos, storage, nextId, rendered, errorMsg, timers>>]_vars

\* A submit of white space into a page that shows a todo.
C28_Witness ==
    /\ last.op = "handleAdd"
    /\ last.threw = "ValidationError"
    /\ inputValue # <<>>
    /\ rendered # <<>>

\* C25: with two tabs, after each successful write the persisted value is the
\* whole collection of the tab that wrote, and the write leaves the
\* collection of the other tab as it was: the tabs do not coordinate.
C25_LastWriterWins ==
    [][/\ (last'.op \in {"add", "delete", "toggle"} /\ last'.saved /\ ~last'.wfail)
             => /\ storage' = JSON_stringify(todos')
                /\ load(storage').value = todos'
                /\ tabTodos' = tabTodos
       /\ (last'.op \in {"tabAdd", "tabDelete", "tabToggle"}
              /\ last'.saved /\ ~last'.wfail)
             => /\ storage' = JSON_stringify(tabTodos')
                /\ load(storage').value = tabTodos'
                /\ todos' = todos
       /\ last'.op = "init" => tabTodos' = tabTodos
       /\ last'.op = "tabInit" => todos' = todos]_vars

\* The second tab added a record and persisted it, and a write of the first
\* tab, initialised before, has replaced the persisted value: the record is
\* in the second tab's collection and not in storage.
C25_Witness ==
    /\ last.op \in {"add", "delete", "toggle"}
    /\ last.saved
    /\ failures = 0
    /\ inited
    /\ \E r \in Range(tabTodos) :
          /\ r.id \notin StoredIds
          /\ r.id \notin IdsOf(load(storage).value)

====
